---- MODULE Spec2Model ----
(***************************************************************************)
(* Model of the anacostia reloader (package/anacostia/cli.py): the CLI     *)
(* entry `main`, the entrypoint runner `_run_app`, the watch-root resolver *)
(* `_resolve_app_directory`, the snapshot `_snapshot_mtimes` and the       *)
(* supervisor loop `_run_with_reloader`, together with the environment the *)
(* loop reacts to: the child processes, the watched tree and the           *)
(* operator's interrupt.                                                   *)
(***************************************************************************)
EXTENDS Integers, Sequences, FiniteSets, TLC

VARIABLES
    environ,    \* os.environ of the top-level process: variable name -> optional value
    args,       \* argparse namespace: [reload, no_reload, app]
    pc,         \* position of the top-level process
    mode,       \* branch taken by main: "" | "runner" | "direct" | "supervisor"
    err,        \* exception that ended the top-level process ("" if none)
    invoked,    \* number of times target() was called in the top-level process
    exitCode,   \* exit status of the top-level process once pc = "done", else -1
    why,        \* how the top-level process ended
    fs,         \* watched tree: file -> st_mtime, 0 when the file does not exist
    events,     \* number of file-system events so far
    pyEvents,   \* number of file-system events on *.py files so far
    mtimes,     \* the baseline snapshot (local `mtimes`)
    listing,    \* files already yielded by rglob in the scan in progress
    children,   \* every process started by subprocess.Popen, in spawn order
    intr,       \* interrupts delivered so far: where the supervisor was, and spawn count
    past        \* an earlier state of the tree, kept where a property compares with it

vars == <<environ, args, pc, mode, err, invoked, exitCode, why, fs, events,
          pyEvents, mtimes, listing, children, intr, past>>

(***************************************************************************)
(* Bounds of the model.                                                    *)
(***************************************************************************)
MaxLen == 3          \* longest locator string enumerated for _run_app
MaxSpawns == 3       \* children the supervisor may start
MaxFsEvents == 2     \* file-system events on the watched tree
MaxInterrupts == 1   \* interrupts the operator sends
MaxMtime == 2        \* largest st_mtime in the trees enumerated for _snapshot_mtimes

(***************************************************************************)
(* Optional values (Python None / a value).                                *)
(***************************************************************************)
None == <<>>
Some(v) == <<v>>

(***************************************************************************)
(* Strings are sequences of characters.                                    *)
(***************************************************************************)
Chars == {"m", "b", "x", ":", "r", "v"}

RECURSIVE StringsUpTo(_)
StringsUpTo(n) ==
    IF n = 0 THEN {<<>>}
    ELSE LET shorter == StringsUpTo(n - 1)
         IN  shorter \cup {Append(s, c) : s \in {t \in shorter : Len(t) = n - 1}, c \in Chars}

\* str.split(":", 1): position of the first separator, 0 when there is none
FirstColon(s) ==
    IF \E i \in 1..Len(s) : s[i] = ":"
    THEN CHOOSE i \in 1..Len(s) : s[i] = ":" /\ \A j \in 1..(i - 1) : s[j] # ":"
    ELSE 0

ModuleName(s) == SubSeq(s, 1, FirstColon(s) - 1)
AttrName(s) == SubSeq(s, FirstColon(s) + 1, Len(s))

(***************************************************************************)
(* The importable world: module "m" comes from a file and module "b" is    *)
(* built in; both have a callable attribute "r" and a non-callable         *)
(* attribute "v".                                                          *)
(***************************************************************************)
Importable(name) == name \in {<<"m">>, <<"b">>}
HasFile(name) == name = <<"m">>
HasAttr(name, attr) == attr \in {<<"r">>, <<"v">>}
Callable(name, attr) == attr = <<"r">>

\* importlib.import_module(name): "ok", or the exception it raises
ImportModule(name) ==
    IF name = <<>> THEN "ValueError"
    ELSE IF Importable(name) THEN "ok"
    ELSE "ImportError"

\* _run_app up to the call of target(): "ok" when target() is reached,
\* else the failure. SystemExit failures are named after the resolution
\* step that failed; the other names are uncaught Python exceptions.
RunAppOutcome(app) ==
    IF app = None THEN "AttributeError"
    ELSE LET s == app[1] IN
         IF FirstColon(s) = 0 THEN "InvalidLocatorFormat"
         ELSE IF ImportModule(ModuleName(s)) = "ImportError" THEN "UnitNotFound"
         ELSE IF ImportModule(ModuleName(s)) # "ok" THEN ImportModule(ModuleName(s))
         ELSE IF ~HasAttr(ModuleName(s), AttrName(s)) THEN "AttributeNotFound"
         ELSE IF ~Callable(ModuleName(s), AttrName(s)) THEN "NotInvocable"
         ELSE "ok"

\* _resolve_app_directory: "ok" when a directory is returned, else the
\* uncaught exception
ResolveDirOutcome(app) ==
    IF app = None THEN "AttributeError"
    ELSE LET s == app[1] IN
         IF FirstColon(s) = 0 THEN "ValueError"
         ELSE IF ImportModule(ModuleName(s)) # "ok" THEN ImportModule(ModuleName(s))
         ELSE IF ~HasFile(ModuleName(s)) THEN "TypeError"
         ELSE "ok"

(***************************************************************************)
(* Process environment and exit status.                                    *)
(***************************************************************************)
_CHILD_ENV_VAR == "ANACOSTIA_RELOADER_CHILD"
EnvVars == {_CHILD_ENV_VAR, "PATH"}

\* os.environ.get(_CHILD_ENV_VAR) == "1"
IsChild(env) == env[_CHILD_ENV_VAR] = Some("1")

\* env = os.environ.copy(); env[_CHILD_ENV_VAR] = "1"
ChildEnv(env) == [env EXCEPT ![_CHILD_ENV_VAR] = Some("1")]

\* sys.exit(n): the status the operating system reports is n modulo 256
UnhandledExit == 1
InterruptExit == 130
SysExit(n) == n % 256

(***************************************************************************)
(* The watched tree. A file is <<stem, extension>>.                        *)
(***************************************************************************)
Files == {<<"a", "py">>, <<"n", "txt">>}

\* root.rglob("*.py")
\* fault: every file under the root is watched
IsPy_AnySuffix(f) == f[2] \in {"py", "txt"}

IsPy(f) == f[2] = "py"
_iter_python_files(tree) == {f \in DOMAIN tree : IsPy(f) /\ tree[f] # 0}

\* {path: path.stat().st_mtime for path in paths}, on the tree as it is now
StatAll(paths, tree) == [f \in paths |-> tree[f]]

\* path.stat() raises FileNotFoundError for a path that no longer exists
StatFails(paths, tree) == \E f \in paths : tree[f] = 0

NoSnapshot == [f \in {} |-> 0]

\* _snapshot_mtimes(root) when the tree does not change during the scan
Snapshot(tree) == StatAll(_iter_python_files(tree), tree)

(***************************************************************************)
(* Child processes. status is Popen's returncode convention: the exit code *)
(* of a process that exited, minus the signal number of one that was       *)
(* killed by a signal.                                                     *)
(***************************************************************************)
SIGKILL == 9
SIGTERM == 15

\* a child ends on its own by returning (0), by an unhandled exception (1),
\* or by a fatal signal such as SIGSEGV (-11)
SelfExitStatuses == {0, 1, -11}
TermExitStatuses == {-SIGTERM}

\* subprocess.Popen(cmd, env=env) with cmd = [..., "--app", args.app]
Popen(app, env) ==
    [state |-> "running", status |-> 0, term |-> FALSE, kill |-> FALSE,
     self |-> FALSE, env |-> env, app |-> app]

\* Popen.poll(): collect the exit status of a child that has exited
Reap(c) == IF c.state = "zombie" THEN [c EXCEPT !.state = "reaped"] ELSE c

\* Popen.terminate(): poll first; signal only a child that has not exited
Terminate(c) == IF c.state = "running" THEN [c EXCEPT !.term = TRUE] ELSE Reap(c)

\* Popen.kill()
Kill(c) == IF c.state = "running" THEN [c EXCEPT !.kill = TRUE] ELSE Reap(c)

Spawned == Len(children)
proc == children[Spawned]
SetProc(c) == [children EXCEPT ![Spawned] = c]
Live == {i \in 1..Spawned : children[i].state = "running"}

(***************************************************************************)
(* Initial states: every command line and environment of the bounds.       *)
(***************************************************************************)
MarkerValues == {None, Some("1"), Some("true"), Some("0"), Some("")}

AppInputs ==
    {None, Some(<<"m", ":", "r">>), Some(<<"m", ":", "v">>), Some(<<"m", ":", "x">>),
     Some(<<"x", ":", "r">>), Some(<<"b", ":", "r">>), Some(<<"m">>),
     Some(<<":", "r">>)}

Environ(mk) == [v \in EnvVars |-> IF v = _CHILD_ENV_VAR THEN mk ELSE Some("p")]

InitTree == [f \in Files |-> 1]

InitRest ==
    /\ mode = ""
    /\ err = ""
    /\ invoked = 0
    /\ exitCode = -1
    /\ why = ""
    /\ fs = InitTree
    /\ events = 0
    /\ pyEvents = 0
    /\ mtimes = NoSnapshot
    /\ listing = {}
    /\ children = <<>>
    /\ intr = <<>>
    /\ past = fs

\* a top-level invocation: the marker is not in the environment
Init ==
    /\ environ = Environ(None)
    /\ args \in [reload : BOOLEAN, no_reload : BOOLEAN, app : AppInputs]
    /\ pc = "main"
    /\ InitRest

(***************************************************************************)
(* The top-level process ends.                                             *)
(***************************************************************************)
\* an exception (or SystemExit with a message) leaves the process
Die(exc, code, reason) ==
    /\ pc' = "done"
    /\ err' = exc
    /\ exitCode' = code
    /\ why' = reason

\* the process ends without an exception
Finish(code, reason) ==
    /\ pc' = "done"
    /\ exitCode' = code
    /\ why' = reason
    /\ UNCHANGED err

(***************************************************************************)
(* main                                                                    *)
(***************************************************************************)
\* fault: --no-reload is not consulted
RoleOf_IgnoresNoReload(env, a) ==
    IF IsChild(env) THEN "runner"
    ELSE IF a.reload THEN "supervisor"
    ELSE "direct"

\* fault: the flags are consulted before the marker
RoleOf_FlagsFirst(env, a) ==
    IF a.reload /\ ~a.no_reload THEN "supervisor"
    ELSE IF IsChild(env) THEN "runner"
    ELSE "direct"

RoleOf(env, a) ==
    IF IsChild(env) THEN "runner"
    ELSE IF a.reload /\ ~a.no_reload THEN "supervisor"
    ELSE "direct"

Main ==
    /\ pc = "main"
    /\ mode' = RoleOf(environ, args)
    /\ pc' = IF RoleOf(environ, args) = "supervisor" THEN "resolve_dir" ELSE "run_app"
    /\ UNCHANGED <<past, environ, args, err, invoked, exitCode, why, fs, events, pyEvents,
                   mtimes, listing, children, intr>>

(***************************************************************************)
(* _run_app, in the top-level process                                      *)
(***************************************************************************)
RunApp ==
    /\ pc = "run_app"
    /\ IF RunAppOutcome(args.app) = "ok"
       THEN /\ invoked' = invoked + 1
            /\ pc' = "in_app"
            /\ UNCHANGED <<err, exitCode, why>>
       ELSE /\ Die(RunAppOutcome(args.app), UnhandledExit, "resolve_error")
            /\ UNCHANGED invoked
    /\ UNCHANGED <<past, environ, args, mode, fs, events, pyEvents, mtimes, listing,
                   children, intr>>

\* target() returns; main returns
AppReturns ==
    /\ pc = "in_app"
    /\ Finish(0, "app_return")
    /\ UNCHANGED <<past, environ, args, mode, invoked, fs, events, pyEvents, mtimes,
                   listing, children, intr>>

\* target() raises; nothing catches it
AppRaises ==
    /\ pc = "in_app"
    /\ Die("Exception", UnhandledExit, "app_raise")
    /\ UNCHANGED <<past, environ, args, mode, invoked, fs, events, pyEvents, mtimes,
                   listing, children, intr>>

(***************************************************************************)
(* _run_with_reloader: before the loop                                     *)
(***************************************************************************)
\* fault: the watch root is taken without importing the unit
ResolveAppDirectory_NoImport ==
    /\ pc = "resolve_dir"
    /\ pc' = "snap0"
    /\ UNCHANGED <<past, environ, args, mode, err, invoked, exitCode, why, fs, events,
                   pyEvents, mtimes, listing, children, intr>>

\* package_root = _resolve_app_directory(args.app)
ResolveAppDirectory ==
    /\ pc = "resolve_dir"
    /\ IF ResolveDirOutcome(args.app) = "ok"
       THEN /\ pc' = "snap0"
            /\ UNCHANGED <<err, exitCode, why>>
       ELSE Die(ResolveDirOutcome(args.app), UnhandledExit, "resolve_error")
    /\ UNCHANGED <<past, environ, args, mode, invoked, fs, events, pyEvents, mtimes,
                   listing, children, intr>>

\* mtimes = _snapshot_mtimes(package_root): rglob yields the paths
InitialScan ==
    /\ pc = "snap0"
    /\ listing' = _iter_python_files(fs)
    /\ pc' = "snap0_stat"
    /\ UNCHANGED <<past, environ, args, mode, err, invoked, exitCode, why, fs, events,
                   pyEvents, mtimes, children, intr>>

\* ... and each yielded path is stat'ed
InitialSnapshot ==
    /\ pc = "snap0_stat"
    /\ IF StatFails(listing, fs)
       THEN /\ Die("FileNotFoundError", UnhandledExit, "crash")
            /\ UNCHANGED mtimes
       ELSE /\ mtimes' = StatAll(listing, fs)
            /\ pc' = "spawn"
            /\ UNCHANGED <<err, exitCode, why>>
    /\ listing' = {}
    /\ UNCHANGED <<past, environ, args, mode, invoked, fs, events, pyEvents, children, intr>>

(***************************************************************************)
(* _run_with_reloader: the outer loop spawns, the inner loop polls         *)
(***************************************************************************)
\* fault: the marker is written to os.environ itself, which the child inherits
Spawn_MarksOwnEnviron ==
    /\ pc = "spawn"
    /\ Spawned < MaxSpawns
    /\ environ' = ChildEnv(environ)
    /\ children' = Append(children, Popen(args.app, ChildEnv(environ)))
    /\ pc' = "spawned"
    /\ UNCHANGED <<past, args, mode, err, invoked, exitCode, why, fs, events,
                   pyEvents, mtimes, listing, intr>>

\* proc = subprocess.Popen(cmd, env=env); `view` is what is kept in `past`
SpawnChild(view) ==
    /\ pc = "spawn"
    /\ Spawned < MaxSpawns
    /\ children' = Append(children, Popen(args.app, ChildEnv(environ)))
    /\ pc' = "spawned"
    /\ past' = view
    /\ UNCHANGED <<environ, args, mode, err, invoked, exitCode, why, fs, events,
                   pyEvents, mtimes, listing, intr>>

Spawn == SpawnChild(past)

\* the same step, keeping the tree that the new child finds when it starts
SpawnSeen == SpawnChild(fs)

\* control enters the try block
EnterTry ==
    /\ pc = "spawned"
    /\ pc' = "poll"
    /\ UNCHANGED <<past, environ, args, mode, err, invoked, exitCode, why, fs, events,
                   pyEvents, mtimes, listing, children, intr>>

\* return_code = proc.poll(); a return code ends the loop, and main passes
\* it to sys.exit
Poll ==
    /\ pc = "poll"
    /\ IF proc.state = "running"
       THEN /\ pc' = "sleep"
            /\ UNCHANGED <<children, err, exitCode, why>>
       ELSE /\ children' = SetProc(Reap(proc))
            /\ Finish(SysExit(proc.status), "child_exit")
    /\ UNCHANGED <<past, environ, args, mode, invoked, fs, events, pyEvents, mtimes,
                   listing, intr>>

\* time.sleep(1.0) returns
Sleep ==
    /\ pc = "sleep"
    /\ pc' = "check"
    /\ UNCHANGED <<past, environ, args, mode, err, invoked, exitCode, why, fs, events,
                   pyEvents, mtimes, listing, children, intr>>

\* new_mtimes = _snapshot_mtimes(package_root): rglob yields the paths
CheckScan ==
    /\ pc = "check"
    /\ listing' = _iter_python_files(fs)
    /\ pc' = "check_stat"
    /\ UNCHANGED <<past, environ, args, mode, err, invoked, exitCode, why, fs, events,
                   pyEvents, mtimes, children, intr>>

\* fault: the baseline is not replaced on a restart
CheckChanges_KeepsBaseline ==
    /\ pc = "check_stat"
    /\ IF StatFails(listing, fs)
       THEN /\ Die("FileNotFoundError", UnhandledExit, "crash")
            /\ UNCHANGED children
       ELSE IF StatAll(listing, fs) # mtimes
       THEN /\ children' = SetProc(Terminate(proc))
            /\ pc' = "wait_restart"
            /\ UNCHANGED <<err, exitCode, why>>
       ELSE /\ pc' = "poll"
            /\ UNCHANGED <<children, err, exitCode, why>>
    /\ listing' = {}
    /\ UNCHANGED <<past, environ, args, mode, invoked, fs, events, pyEvents, mtimes, intr>>

\* fault: the snapshots are compared by identity, so every iteration restarts
CheckChanges_AlwaysRestarts ==
    /\ pc = "check_stat"
    /\ IF StatFails(listing, fs)
       THEN /\ Die("FileNotFoundError", UnhandledExit, "crash")
            /\ UNCHANGED <<mtimes, children>>
       ELSE /\ mtimes' = StatAll(listing, fs)
            /\ children' = SetProc(Terminate(proc))
            /\ pc' = "wait_restart"
            /\ UNCHANGED <<err, exitCode, why>>
    /\ listing' = {}
    /\ UNCHANGED <<past, environ, args, mode, invoked, fs, events, pyEvents, intr>>

\* ... each yielded path is stat'ed; if new_mtimes != mtimes the baseline is
\* replaced and the child is sent SIGTERM
CheckChanges ==
    /\ pc = "check_stat"
    /\ IF StatFails(listing, fs)
       THEN /\ Die("FileNotFoundError", UnhandledExit, "crash")
            /\ UNCHANGED <<mtimes, children>>
       ELSE IF StatAll(listing, fs) # mtimes
       THEN /\ mtimes' = StatAll(listing, fs)
            /\ children' = SetProc(Terminate(proc))
            /\ pc' = "wait_restart"
            /\ UNCHANGED <<err, exitCode, why>>
       ELSE /\ pc' = "poll"
            /\ UNCHANGED <<mtimes, children, err, exitCode, why>>
    /\ listing' = {}
    /\ UNCHANGED <<past, environ, args, mode, invoked, fs, events, pyEvents, intr>>

\* proc.wait(timeout=5) returns: the child has exited; break
WaitReaped ==
    /\ pc = "wait_restart"
    /\ proc.state # "running"
    /\ children' = SetProc(Reap(proc))
    /\ pc' = "spawn"
    /\ UNCHANGED <<past, environ, args, mode, err, invoked, exitCode, why, fs, events,
                   pyEvents, mtimes, listing, intr>>

\* fault: proc.wait() without a timeout, which returns only when the child exits
WaitTimeout_WaitsForExit ==
    /\ pc = "wait_restart"
    /\ proc.state = "running"
    /\ FALSE
    /\ UNCHANGED vars

\* proc.wait(timeout=5) raises TimeoutExpired: proc.kill(); break
WaitTimeout ==
    /\ pc = "wait_restart"
    /\ proc.state = "running"
    /\ children' = SetProc(Kill(proc))
    /\ pc' = "spawn"
    /\ UNCHANGED <<past, environ, args, mode, err, invoked, exitCode, why, fs, events,
                   pyEvents, mtimes, listing, intr>>

(***************************************************************************)
(* KeyboardInterrupt                                                       *)
(***************************************************************************)
\* positions inside `try:` ... `except KeyboardInterrupt:`
TryPcs == {"poll", "sleep", "check", "check_stat", "wait_restart"}
\* positions of _run_with_reloader outside the try block
OutsidePcs == {"resolve_dir", "snap0", "snap0_stat", "spawn", "spawned",
               "stop", "stop_wait"}

\* fault: the wait of a restart is not covered by the try block
Interrupt_RestartUnprotected ==
    /\ mode = "supervisor"
    /\ pc \in TryPcs \cup OutsidePcs
    /\ Len(intr) < MaxInterrupts
    /\ intr' = Append(intr, [at |-> pc, spawned |-> Spawned])
    /\ IF pc \in TryPcs \ {"wait_restart"}
       THEN /\ pc' = "stop"
            /\ UNCHANGED <<err, exitCode, why>>
       ELSE Die("KeyboardInterrupt", InterruptExit, "uncaught_interrupt")
    /\ listing' = {}
    /\ UNCHANGED <<past, environ, args, mode, invoked, fs, events, pyEvents, mtimes, children>>

\* the operator interrupts the supervisor
Interrupt ==
    /\ mode = "supervisor"
    /\ pc \in TryPcs \cup OutsidePcs
    /\ Len(intr) < MaxInterrupts
    /\ intr' = Append(intr, [at |-> pc, spawned |-> Spawned])
    /\ IF pc \in TryPcs
       THEN /\ pc' = "stop"
            /\ UNCHANGED <<err, exitCode, why>>
       ELSE Die("KeyboardInterrupt", InterruptExit, "uncaught_interrupt")
    /\ listing' = {}
    /\ UNCHANGED <<past, environ, args, mode, invoked, fs, events, pyEvents, mtimes, children>>

\* except KeyboardInterrupt: proc.terminate()
StopTerminate ==
    /\ pc = "stop"
    /\ children' = SetProc(Terminate(proc))
    /\ pc' = "stop_wait"
    /\ UNCHANGED <<past, environ, args, mode, err, invoked, exitCode, why, fs, events,
                   pyEvents, mtimes, listing, intr>>

\* proc.wait(timeout=5) returns; return 0
StopReaped ==
    /\ pc = "stop_wait"
    /\ proc.state # "running"
    /\ children' = SetProc(Reap(proc))
    /\ Finish(SysExit(0), "interrupt")
    /\ UNCHANGED <<past, environ, args, mode, invoked, fs, events, pyEvents, mtimes,
                   listing, intr>>

\* fault: the timeout of the grace period is not followed by a kill
StopTimeout_NoKill ==
    /\ pc = "stop_wait"
    /\ proc.state = "running"
    /\ Finish(SysExit(0), "interrupt")
    /\ UNCHANGED <<past, environ, args, mode, invoked, fs, events, pyEvents, mtimes,
                   listing, children, intr>>

\* proc.wait(timeout=5) raises TimeoutExpired: proc.kill(); return 0
StopTimeout ==
    /\ pc = "stop_wait"
    /\ proc.state = "running"
    /\ children' = SetProc(Kill(proc))
    /\ Finish(SysExit(0), "interrupt")
    /\ UNCHANGED <<past, environ, args, mode, invoked, fs, events, pyEvents, mtimes,
                   listing, intr>>

(***************************************************************************)
(* The environment: child processes and the watched tree                   *)
(***************************************************************************)
\* what a child does on its own: main() with the marker set runs
\* _run_app(args.app); a locator that does not resolve ends it with status 1
ChildOwnStatuses(c) ==
    IF RunAppOutcome(c.app) = "ok" /\ IsChild(c.env) THEN SelfExitStatuses
    ELSE {UnhandledExit}

\* child i returns, crashes or dies without having been signalled
ChildExits(i) ==
    /\ children[i].state = "running"
    /\ ~children[i].term
    /\ ~children[i].kill
    /\ \E st \in ChildOwnStatuses(children[i]) :
           children' = [children EXCEPT ![i].state = "zombie", ![i].status = st,
                                        ![i].self = TRUE]
    /\ UNCHANGED <<past, environ, args, pc, mode, err, invoked, exitCode, why, fs, events,
                   pyEvents, mtimes, listing, intr>>

\* child i ends in response to SIGTERM
ChildTerminates(i) ==
    /\ children[i].state = "running"
    /\ children[i].term
    /\ ~children[i].kill
    /\ \E st \in TermExitStatuses :
           children' = [children EXCEPT ![i].state = "zombie", ![i].status = st]
    /\ UNCHANGED <<past, environ, args, pc, mode, err, invoked, exitCode, why, fs, events,
                   pyEvents, mtimes, listing, intr>>

\* SIGKILL takes effect on child i
ChildKilled(i) ==
    /\ children[i].state = "running"
    /\ children[i].kill
    /\ children' = [children EXCEPT ![i].state = "zombie", ![i].status = -SIGKILL]
    /\ UNCHANGED <<past, environ, args, pc, mode, err, invoked, exitCode, why, fs, events,
                   pyEvents, mtimes, listing, intr>>

FsActive == mode = "supervisor" /\ pc # "done" /\ events < MaxFsEvents

\* a file is written (created or modified): its mtime moves forward
Touch(f) ==
    /\ FsActive
    /\ fs' = [fs EXCEPT ![f] = events + 2]
    /\ events' = events + 1
    /\ pyEvents' = IF IsPy(f) THEN pyEvents + 1 ELSE pyEvents
    /\ UNCHANGED <<past, environ, args, pc, mode, err, invoked, exitCode, why, mtimes,
                   listing, children, intr>>

\* a file is deleted
Remove(f) ==
    /\ FsActive
    /\ fs[f] # 0
    /\ fs' = [fs EXCEPT ![f] = 0]
    /\ events' = events + 1
    /\ pyEvents' = IF IsPy(f) THEN pyEvents + 1 ELSE pyEvents
    /\ UNCHANGED <<past, environ, args, pc, mode, err, invoked, exitCode, why, mtimes,
                   listing, children, intr>>

(***************************************************************************)
(* Specifications                                                          *)
(***************************************************************************)
Next ==
    \/ Main
    \/ RunApp
    \/ AppReturns
    \/ AppRaises
    \/ ResolveAppDirectory
    \/ InitialScan
    \/ InitialSnapshot
    \/ Spawn
    \/ EnterTry
    \/ Poll
    \/ Sleep
    \/ CheckScan
    \/ CheckChanges
    \/ WaitReaped
    \/ WaitTimeout
    \/ Interrupt
    \/ StopTerminate
    \/ StopReaped
    \/ StopTimeout
    \/ \E i \in 1..Spawned : ChildExits(i)
    \/ \E i \in 1..Spawned : ChildTerminates(i)
    \/ \E i \in 1..Spawned : ChildKilled(i)
    \/ \E f \in Files : Touch(f)
    \/ \E f \in Files : Remove(f)

Spec == Init /\ [][Next]_vars

\* every environment and command line, in a tree nobody writes to and with
\* no interrupt
InitRole ==
    /\ environ \in {Environ(mk) : mk \in MarkerValues}
    /\ args \in [reload : BOOLEAN, no_reload : BOOLEAN, app : AppInputs]
    /\ pc = "main"
    /\ InitRest

NextRole ==
    \/ Main
    \/ RunApp
    \/ AppReturns
    \/ AppRaises
    \/ ResolveAppDirectory
    \/ InitialScan
    \/ InitialSnapshot
    \/ Spawn
    \/ EnterTry
    \/ Poll
    \/ Sleep
    \/ CheckScan
    \/ CheckChanges
    \/ \E i \in 1..Spawned : ChildExits(i)

SpecRole == InitRole /\ [][NextRole]_vars

\* SIGKILL cannot be caught or ignored: the operating system ends the process
SpecFair == Spec /\ WF_vars(\E i \in 1..Spawned : ChildKilled(i))

\* the supervisor is a running process: its loop takes its next step (the
\* sleep and both waits are bounded by their timeouts), and SIGKILL ends a
\* child
LoopStep ==
    \/ Spawn
    \/ EnterTry
    \/ Poll
    \/ Sleep
    \/ CheckScan
    \/ CheckChanges
    \/ WaitReaped
    \/ WaitTimeout

SpecLive ==
    /\ Spec
    /\ WF_vars(LoopStep)
    /\ WF_vars(\E i \in 1..Spawned : ChildKilled(i))

\* the program with, in `past`, the tree as the latest child found it
NextSeen ==
    \/ Main
    \/ RunApp
    \/ AppReturns
    \/ AppRaises
    \/ ResolveAppDirectory
    \/ InitialScan
    \/ InitialSnapshot
    \/ SpawnSeen
    \/ EnterTry
    \/ Poll
    \/ Sleep
    \/ CheckScan
    \/ CheckChanges
    \/ WaitReaped
    \/ WaitTimeout
    \/ Interrupt
    \/ StopTerminate
    \/ StopReaped
    \/ StopTimeout
    \/ \E i \in 1..Spawned : ChildExits(i)
    \/ \E i \in 1..Spawned : ChildTerminates(i)
    \/ \E i \in 1..Spawned : ChildKilled(i)
    \/ \E f \in Files : Touch(f)
    \/ \E f \in Files : Remove(f)

\* the watched root with or without a.py when the supervisor starts
StartTrees == {t \in [Files -> {0, 1}] : t[<<"n", "txt">>] = 1}

InitSeen ==
    /\ environ = Environ(None)
    /\ args \in [reload : BOOLEAN, no_reload : BOOLEAN, app : AppInputs]
    /\ pc = "main"
    /\ mode = ""
    /\ err = ""
    /\ invoked = 0
    /\ exitCode = -1
    /\ why = ""
    /\ fs \in StartTrees
    /\ events = 0
    /\ pyEvents = 0
    /\ mtimes = NoSnapshot
    /\ listing = {}
    /\ children = <<>>
    /\ intr = <<>>
    /\ past = fs

SpecSeen == InitSeen /\ [][NextSeen]_vars

\* _run_app applied to every locator string of at most MaxLen characters
InitResolve ==
    /\ environ = Environ(None)
    /\ args \in [reload : {FALSE}, no_reload : {FALSE},
                 app : {None} \cup {Some(s) : s \in StringsUpTo(MaxLen)}]
    /\ pc = "main"
    /\ InitRest

NextResolve == Main \/ RunApp \/ AppReturns \/ AppRaises

SpecResolve == InitResolve /\ [][NextResolve]_vars

\* two snapshots of trees that differ arbitrarily: the baseline of any tree
\* of SnapFiles, then one rewrite of the tree while the supervisor sleeps,
\* then the snapshot of the next iteration and its comparison
SnapFiles == {<<"a", "py">>, <<"b", "py">>, <<"n", "txt">>}
Trees == [SnapFiles -> 0..MaxMtime]

InitSnapshot ==
    /\ environ = Environ(None)
    /\ args = [reload |-> TRUE, no_reload |-> FALSE, app |-> Some(<<"m", ":", "r">>)]
    /\ pc = "snap0"
    /\ mode = "supervisor"
    /\ err = ""
    /\ invoked = 0
    /\ exitCode = -1
    /\ why = ""
    /\ fs \in Trees
    /\ events = 0
    /\ pyEvents = 0
    /\ mtimes = NoSnapshot
    /\ listing = {}
    /\ children = <<>>
    /\ intr = <<>>
    /\ past = fs

\* between two scans the tree becomes any tree of SnapFiles
Rewrite ==
    /\ pc = "sleep"
    /\ events = 0
    /\ \E t \in Trees : fs' = t
    /\ past' = fs
    /\ events' = 1
    /\ UNCHANGED <<environ, args, pc, mode, err, invoked, exitCode, why, pyEvents,
                   mtimes, listing, children, intr>>

NextSnapshot ==
    \/ InitialScan
    \/ InitialSnapshot
    \/ Spawn
    \/ EnterTry
    \/ Poll
    \/ Sleep
    \/ Rewrite
    \/ CheckScan
    \/ CheckChanges

SpecSnapshot == InitSnapshot /\ [][NextSnapshot]_vars

(***************************************************************************)
(* Properties                                                              *)
(***************************************************************************)
Marker == environ[_CHILD_ENV_VAR]
ReloadMode == args.reload /\ ~args.no_reload
Ended == pc = "done"

\* the unit part of the locator cannot be resolved to a directory
UnitUnresolvable(app) ==
    \/ app = None
    \/ FirstColon(app[1]) = 0
    \/ ModuleName(app[1]) \notin {<<"m">>}

\* the locator does not name a callable attribute of an importable unit
Unresolvable(app) ==
    \/ app = None
    \/ FirstColon(app[1]) = 0
    \/ ModuleName(app[1]) \notin {<<"m">>, <<"b">>}
    \/ AttrName(app[1]) # <<"r">>

\* C1: in reload mode, when the supervisor ends because it saw its child
\* exit on its own, its exit status equals the child's return code, whatever
\* that is (clean return, failure, death by signal).
C1_ExitCodeIsChildCode ==
    (Ended /\ why = "child_exit") => exitCode = proc.status

\* C2: once a child has exited on its own the supervisor spawns no other
\* child: no child that exited on its own is ever followed by a newer one.
C2_NoSpawnAfterSelfExit ==
    \A i \in 1..Spawned : children[i].self => i = Spawned

\* the restart bookkeeping of C3 that holds in every state
C3_Counts ==
    mode = "supervisor" =>
        /\ pyEvents = 0 => Spawned <= 1
        /\ pc \in {"spawned", "poll", "sleep", "check", "check_stat"} =>
               (Spawned >= 1 /\ proc.state # "reaped")
        /\ Spawned <= 1 + pyEvents
        /\ \A i \in 1..Spawned :
               i < Spawned => (children[i].state # "running" \/ children[i].kill)

\* a scan that found the baseline changed is never followed by more polling
\* of the same child, and a child is spawned only from the spawn position
C3_Step ==
    /\ (pc = "check_stat" /\ pc' = "poll") =>
           (StatAll(listing, fs) = mtimes /\ Spawned' = Spawned)
    /\ (pc = "check_stat" /\ pc' = "wait_restart") =>
           (StatAll(listing, fs) # mtimes /\ mtimes' = StatAll(listing, fs))
    /\ Spawned' # Spawned => (pc = "spawn" /\ Spawned' = Spawned + 1)

C4_OneLiveChildOldReaped ==
    /\ Cardinality(Live) <= 1
    /\ \A i \in 1..Spawned : i < Spawned => children[i].state = "reaped"

\* C5: an interrupt that reaches the supervisor while it sleeps makes it ask
\* the child to terminate, kill it if it is still running when the grace
\* period ends, and exit with status 0 without spawning another child.
C5_InterruptWhileSleeping ==
    (Len(intr) = 1 /\ intr[1].at = "sleep") =>
        /\ pc \in {"stop", "stop_wait", "done"}
        /\ Spawned = intr[1].spawned
        /\ pc # "stop" => (proc.term \/ proc.state = "reaped")
        /\ Ended => /\ exitCode = 0
                    /\ why = "interrupt"
                    /\ proc.state = "reaped" \/ proc.kill

C5_Witness ==
    /\ Ended
    /\ Len(intr) = 1
    /\ intr[1].at = "sleep"
    /\ proc.term
    /\ proc.kill

\* C6: without the role marker, and without --reload or with --no-reload
\* (also when both are given), no child is spawned, the watch loop is never
\* entered, and a locator that resolves is invoked exactly once in the
\* current process.
C6_DirectRunOnce ==
    (Marker = None /\ ~ReloadMode) =>
        /\ Spawned = 0
        /\ mode \in {"", "direct"}
        /\ pc \in {"main", "run_app", "in_app", "done"}
        /\ mtimes = NoSnapshot
        /\ invoked <= 1
        /\ (pc \in {"in_app", "done"} /\ ~Unresolvable(args.app)) => invoked = 1

C6_Witness ==
    /\ Marker = None
    /\ args.reload
    /\ args.no_reload
    /\ Ended
    /\ invoked = 1

\* C7 as stated: with a locator that does not resolve, whatever the failing
\* step, the supervisor never spawns a child.
C7_NoSpawnIfUnresolvable ==
    (mode = "supervisor" /\ Unresolvable(args.app)) => Spawned = 0

\* C7 amended: a resolution failure ends the process that runs _run_app with
\* a non-zero status and without invoking anything; the supervisor aborts
\* before any spawn when the unit part of the locator cannot be resolved;
\* a child started with a locator that does not resolve exits non-zero.
C7_UnitFailureAbortsBeforeSpawn ==
    /\ (mode = "supervisor" /\ UnitUnresolvable(args.app)) =>
           /\ Spawned = 0
           /\ pc \in {"resolve_dir", "done"}
           /\ Ended => exitCode # 0
    /\ (mode \in {"direct", "runner"} /\ Unresolvable(args.app)) =>
           /\ invoked = 0
           /\ Ended => (exitCode # 0 /\ err # "")
    /\ \A i \in 1..Spawned :
           (Unresolvable(children[i].app) /\ children[i].self) => children[i].status # 0

C7_Witness ==
    /\ mode = "supervisor"
    /\ args.app = Some(<<"x", ":", "r">>)
    /\ Ended
    /\ err = "ImportError"
    /\ Spawned = 0

\* a string that is not of the form unit:attr with both parts non-empty
Malformed(s) ==
    \/ FirstColon(s) = 0
    \/ ModuleName(s) = <<>>
    \/ AttrName(s) = <<>>

\* C8: resolution yields the invocable for every locator that names one, and
\* fails with InvalidLocatorFormat, and nothing else, for every malformed
\* string (no separator, empty unit part, empty attribute part).
C8_ResolveClassifies ==
    (pc \in {"in_app", "done"} /\ args.app # None) =>
        /\ ~Unresolvable(args.app) => invoked = 1
        /\ Malformed(args.app[1]) => (invoked = 0 /\ err = "InvalidLocatorFormat")

\* Python truthiness of an environment value: set, and not the empty string
Truthy(v) == v # None /\ v[1] # ""

\* C9 as stated: with any truthy value of the marker, whatever the flags,
\* the process never enters the supervisor loop nor spawns a child, and runs
\* a locator that resolves exactly once.
C9_TruthyMarkerIsRunner ==
    Truthy(Marker) =>
        /\ mode # "supervisor"
        /\ Spawned = 0
        /\ pc \in {"main", "run_app", "in_app", "done"}
        /\ invoked <= 1

\* C9 amended: the marker with the value "1" makes the process a Runner,
\* whatever the flags: it never enters the supervisor loop nor spawns, and
\* runs a locator that resolves exactly once.
C9_MarkerOneIsRunner ==
    Marker = Some("1") =>
        /\ mode \in {"", "runner"}
        /\ Spawned = 0
        /\ pc \in {"main", "run_app", "in_app", "done"}
        /\ invoked <= 1
        /\ (pc \in {"in_app", "done"} /\ ~Unresolvable(args.app)) => invoked = 1

C9_Witness ==
    /\ Marker = Some("1")
    /\ args.reload
    /\ ~args.no_reload
    /\ mode = "runner"
    /\ Ended
    /\ invoked = 1

\* C10: every child, first or restarted, is started with the marker set and
\* the supervisor's own --app locator, in a copy of the supervisor's
\* environment; the supervisor's own environment never holds the marker.
C10_ChildMarkedSupervisorNot ==
    /\ \A i \in 1..Spawned :
           /\ children[i].env[_CHILD_ENV_VAR] = Some("1")
           /\ children[i].app = args.app
           /\ \A v \in EnvVars \ {_CHILD_ENV_VAR} : children[i].env[v] = environ[v]
    /\ environ = Environ(None)

C10_Witness ==
    /\ Spawned = 3
    /\ pc = "poll"
    /\ children[3].state = "running"

\* C11: when --app is omitted the documented default locator is used, so no
\* mode fails for want of a locator: the process never ends on the error of
\* splitting a missing locator, and in the Runner and direct modes it
\* reaches the resolution of a well-formed locator.
C11_OmittedAppUsesDefault ==
    args.app = None =>
        /\ err # "AttributeError"
        /\ (Ended /\ mode \in {"direct", "runner"}) => why # "resolve_error"

\* some watched file exists in one tree only, or has another st_mtime
WatchedDiffer(t1, t2) == \E f \in DOMAIN t1 : f[2] = "py" /\ t1[f] # t2[f]

\* C12: comparing the snapshot of a tree with the baseline taken of an
\* earlier tree decides a restart if and only if some *.py file was added,
\* removed or has another modification time between the two trees; a
\* rewrite that touches only other files is never taken for a change.
C12_SnapshotsDifferIffWatchedDiffer ==
    [][(pc = "check_stat" /\ pc' \in {"poll", "wait_restart"})
        => /\ mtimes = Snapshot(past)
           /\ (pc' = "wait_restart") <=> WatchedDiffer(past, fs)
      ]_vars

C12_Witness ==
    /\ pc = "wait_restart"
    /\ past[<<"b", "py">>] # 0 /\ fs[<<"b", "py">>] = 0
    /\ past[<<"a", "py">>] = fs[<<"a", "py">>]
    /\ past[<<"n", "txt">>] = fs[<<"n", "txt">>]

\* C13: a file that cannot be stat'd while a snapshot is taken is skipped:
\* the failure never aborts the snapshot and never reaches the supervisor
\* loop, so the supervisor never ends on the error of a stat.
C13_StatFailureSkipped ==
    /\ err # "FileNotFoundError"
    /\ (Ended /\ mode = "supervisor") => why # "crash"

\* a step in which child i is sent SIGKILL
KillSent(i) == Len(children') >= i /\ children'[i].kill /\ ~children[i].kill

\* C14: to stop a child the supervisor first asks it to terminate and then
\* waits for a bounded time: while it waits the child has been sent SIGTERM
\* or has exited, the wait can always end (by the exit or by the timeout),
\* SIGKILL is sent only to a child that was asked to terminate and is still
\* running when the wait times out, and the timeout is not an error: the
\* supervisor goes on to the next spawn, or ends with status 0 when stopping.
C14_GracefulThenForced ==
    /\ [](pc \in {"wait_restart", "stop_wait"}
            => proc.term \/ proc.state # "running")
    /\ [](pc = "wait_restart" => ENABLED (WaitReaped \/ WaitTimeout))
    /\ [](pc = "stop_wait" => ENABLED (StopReaped \/ StopTimeout))
    /\ [][\A i \in 1..Spawned : KillSent(i) =>
            /\ i = Spawned
            /\ children[i].term /\ children[i].state = "running"
            /\ pc \in {"wait_restart", "stop_wait"}
            /\ err' = ""
            /\ pc = "wait_restart" => pc' = "spawn"
            /\ pc = "stop_wait" => pc' = "done" /\ exitCode' = 0
         ]_vars

\* a child that ignored SIGTERM was killed at the timeout and replaced
C14_Witness ==
    /\ Spawned = 2
    /\ children[1].term /\ children[1].kill
    /\ proc.state = "running"
    /\ pc = "poll"

\* C15: the one interrupt of a run, delivered while the supervisor polls the
\* child, sleeps, takes the snapshot of an iteration or waits for a child it
\* is restarting, stops the supervisor: it asks the current child to
\* terminate (and kills it if the wait times out), starts no further child,
\* and ends with status 0 and no error.
C15_InterruptStops ==
    (/\ Len(intr) = 1
     /\ intr[1].at \in {"poll", "sleep", "check", "check_stat", "wait_restart"})
    => /\ Spawned = intr[1].spawned
       /\ pc \in {"stop", "stop_wait", "done"}
       /\ pc \in {"stop_wait", "done"} => proc.term \/ proc.state # "running"
       /\ Ended => /\ exitCode = 0 /\ err = "" /\ why = "interrupt"
                   /\ proc.kill \/ proc.state # "running"

\* the interrupt arrived during the wait of a restart and the supervisor ended
C15_Witness ==
    /\ Len(intr) = 1
    /\ intr[1].at = "wait_restart"
    /\ Ended
    /\ exitCode = 0
    /\ proc.term

\* C16: when the watched tree differs from the baseline while child n runs,
\* then, unless the child exits on its own, an interrupt arrives or the tree
\* is back at the baseline, the supervisor eventually replaces the child:
\* a later child is spawned.
C16_ChangeRestartsChild ==
    \A n \in 1..(MaxSpawns - 1) :
        (/\ Spawned = n
         /\ pc \in {"poll", "sleep", "check", "check_stat"}
         /\ children[n].state = "running"
         /\ Snapshot(fs) # mtimes)
        ~> \/ Spawned > n
           \/ Spawned >= n /\ children[n].self
           \/ Len(intr) > 0
           \/ Snapshot(fs) = mtimes

\* C17: the baseline is set before the first spawn by the initial snapshot
\* and afterwards only by the snapshot whose difference decides a restart;
\* a restart is decided only when the watched tree differs from the
\* baseline; and the comparison of an iteration in which the watched tree
\* equals the baseline returns to polling with the same child.
C17_NoSpuriousRestart ==
    [][/\ mtimes' # mtimes =>
            /\ mtimes' = StatAll(listing, fs)
            /\ \/ pc = "snap0_stat" /\ Spawned = 0
               \/ pc = "check_stat" /\ pc' = "wait_restart"
       /\ (pc = "check_stat" /\ pc' = "wait_restart") =>
            /\ Snapshot(fs) # mtimes
            /\ mtimes' # mtimes
       /\ (/\ pc = "check_stat"
           /\ listing = _iter_python_files(fs)
           /\ Snapshot(fs) = mtimes
           /\ pc' \notin {"check_stat", "stop"})
          => pc' = "poll" /\ children' = children
      ]_vars

\* after a restart, a scan of the unchanged tree is about to be compared
C17_Witness ==
    /\ pc = "check_stat"
    /\ Spawned = 2
    /\ proc.state = "running"
    /\ listing = _iter_python_files(fs)
    /\ Snapshot(fs) = mtimes

\* C18: once the first child has been spawned the supervisor ends only
\* because a child exited on its own or because an interrupt was received:
\* no event on the watched tree ends it.
C18_EndsOnlyOnExitOrInterrupt ==
    (Ended /\ Spawned >= 1) =>
        \/ why = "child_exit"
        \/ why \in {"interrupt", "uncaught_interrupt"} /\ Len(intr) > 0

\* C19: the supervisor leaves no orphan: whenever it has ended, by whatever
\* path, none of the children it spawned is still running.
C19_NoOrphanedChild ==
    (Ended /\ mode = "supervisor") => Live = {}

\* C20: no modification of the watched tree is lost across a restart:
\* whenever the supervisor is in a polling iteration, its child runs and the
\* watched tree equals the baseline, the child has seen that tree: the
\* watched tree is the one the child found when it started, so the child is
\* never left stale without a later comparison detecting it.
C20_NoModificationLost ==
    (/\ mode = "supervisor"
     /\ pc \in {"spawned", "poll", "sleep", "check", "check_stat"}
     /\ proc.state = "running"
     /\ Snapshot(fs) = mtimes)
    => Snapshot(past) = Snapshot(fs)

====
